---- MODULE Spec2Model ----
(***************************************************************************)
(* A model of the S3 file service (package s3 of file_service): the        *)
(* delimiter listing ListFiles, the recursive aggregator ListAllFiles, the *)
(* flat scans DeleteFolder and ListAllFolders, and the download-link cache *)
(* used by GenerateDownloadLink.                                           *)
(*                                                                         *)
(* Object keys and folder paths are strings, modelled as sequences of      *)
(* one-character strings, so that prefixes, suffixes and the byte order of *)
(* the backend's enumeration are computed and not assumed.  "" is <<>>.    *)
(* A nil *string (no continuation token) is modelled as <<>> as well: the  *)
(* backend never hands out an empty token.                                 *)
(* LastModified of ObjectDetails is left out: no operation reads it.       *)
(***************************************************************************)
EXTENDS Integers, Sequences, FiniteSets, TLC

VARIABLES
  store,   \* the bucket: key -> size of the object
  cache,   \* the process-wide URLCache: key -> [url, expires]
  now,     \* the clock, in minutes
  lp,      \* a client paging through ListFiles
  df,      \* a run of DeleteFolder
  lf,      \* a run of ListAllFolders
  dl,      \* the download requests: dl[r] is the state of request slot r
  hist,    \* the download requests answered so far, in order of completion
  signs,   \* the URLs req.Presign returned to download requests, in order
  cf,      \* the last create-folder request: its answer and backend calls
  dfile,   \* the delete-file requests: their number, and the last one
  la       \* a run of ListAllFiles

vars == <<store, cache, now, lp, df, lf, dl, hist, signs, cf, dfile, la>>

----------------------------------------------------------------------------
(* Bounds of the model *)

\* the largest number of objects in the bucket
MaxStoreSize == 3

\* the largest number of objects in a bucket scanned by DeleteFolder or
\* ListAllFolders
MaxScanStoreSize == 4

\* the largest page size a caller of ListFiles asks for
MaxPageSize == 2

\* the size in bytes of a non-empty object
FileSize == 5

----------------------------------------------------------------------------
(* Strings *)

Nil == <<>>

Min(a, b) == IF a <= b THEN a ELSE b

\* the byte value of a character: Go compares and S3 enumerates by bytes
CharOrd(c) == CASE c = "/" -> 47 [] c = "a" -> 97 [] c = "b" -> 98

\* strings.HasSuffix(s, "/")
HasSuffix(s, c) == Len(s) > 0 /\ s[Len(s)] = c

HasPrefix(s, p) == Len(p) <= Len(s) /\ SubSeq(s, 1, Len(p)) = p

\* s < t in byte order
RECURSIVE LexLess(_, _)
LexLess(s, t) ==
  IF s = <<>> THEN t # <<>>
  ELSE IF t = <<>> THEN FALSE
  ELSE IF s[1] # t[1] THEN CharOrd(s[1]) < CharOrd(t[1])
  ELSE LexLess(Tail(s), Tail(t))

\* the strings of S in increasing byte order
RECURSIVE SortKeys(_)
SortKeys(S) ==
  IF S = {} THEN <<>>
  ELSE LET m == CHOOSE x \in S : \A y \in S \ {x} : LexLess(x, y)
       IN <<m>> \o SortKeys(S \ {m})

Range(s) == {s[i] : i \in 1..Len(s)}

NoDup(s) == \A i, j \in 1..Len(s) : i # j => s[i] # s[j]

\* "if folderPath != "" && !strings.HasSuffix(folderPath, "/") { folderPath += "/" }"
NormalizeFolderPath(folderPath) ==
  IF folderPath # <<>> /\ ~HasSuffix(folderPath, "/")
  THEN folderPath \o <<"/">>
  ELSE folderPath

----------------------------------------------------------------------------
(* The bucket *)

\* the keys an object of the bucket can have
KeyUniverse ==
  { <<"a">>, <<"a", "/">>, <<"a", "/", "a">>, <<"a", "/", "b">>,
    <<"a", "/", "b", "/">>, <<"a", "/", "b", "/", "a">>, <<"b">> }

\* folder markers are written by CreateFolder with no body; uploads may be empty
SizesOf(k) == IF HasSuffix(k, "/") THEN {0} ELSE {0, FileSize}

\* a bucket maps the keys it holds to the sizes of their objects
StoresUpTo(max) ==
  UNION { {st \in [K -> {0, FileSize}] : \A k \in K : st[k] \in SizesOf(k)} :
            K \in {K \in SUBSET KeyUniverse : Cardinality(K) <= max} }

\* the buckets the paged listings run against
Stores == StoresUpTo(MaxStoreSize)

\* the buckets the flat scans run against
ScanStores == StoresUpTo(MaxScanStoreSize)

\* the folder paths and object keys a request names
Paths == { <<>>, <<"a">>, <<"a", "/">>, <<"a", "/", "b">> }

----------------------------------------------------------------------------
(* The backend: ListObjectsV2 *)

\* what a listing of prefix shows for key k: the key itself or, with the
\* delimiter, the common prefix that ends at the first "/" after prefix
EntryOf(k, prefix, delimited) ==
  LET cut == {i \in (Len(prefix) + 1)..Len(k) : k[i] = "/"}
  IN IF delimited /\ cut # {}
     THEN SubSeq(k, 1, CHOOSE i \in cut : \A j \in cut : i <= j)
     ELSE k

Entries(st, prefix, delimited) ==
  {EntryOf(k, prefix, delimited) : k \in {k \in DOMAIN st : HasPrefix(k, prefix)}}

IsCommonPrefix(e, prefix, delimited) ==
  delimited /\ Len(e) > Len(prefix) /\ HasSuffix(e, "/")

\* the output the SDK hands back with an error: allocated, every field unset
EmptyOutput ==
  [Contents |-> <<>>, CommonPrefixes |-> <<>>, IsTruncated |-> FALSE,
   NextContinuationToken |-> Nil]

\* the entries of a listing that come after the continuation token
EntriesAfter(st, prefix, delimited, token) ==
  {e \in Entries(st, prefix, delimited) : token = Nil \/ LexLess(token, e)}

\* the objects of the keys of a page
ObjectsOf(st, keys) ==
  [i \in 1..Len(keys) |-> [Key |-> keys[i], Size |-> st[keys[i]]]]

\* the output for a page of the first len of the entries rest: contents and
\* common prefixes, each in enumeration order, and the token of the last
\* entry when entries are left
OutputOf(st, prefix, delimited, rest, len) ==
  [Contents |->
     ObjectsOf(st, SelectSeq(SubSeq(rest, 1, len),
                             LAMBDA e : ~IsCommonPrefix(e, prefix, delimited))),
   CommonPrefixes |->
     SelectSeq(SubSeq(rest, 1, len),
               LAMBDA e : IsCommonPrefix(e, prefix, delimited)),
   IsTruncated |-> len < Len(rest),
   NextContinuationToken |-> IF 0 < len /\ len < Len(rest) THEN rest[len] ELSE Nil]

\* One page: the first n entries after the token, n <= maxKeys (the backend
\* may return fewer keys than MaxKeys, never more).
ListObjectsV2(st, prefix, delimited, token, maxKeys, n) ==
  OutputOf(st, prefix, delimited,
           SortKeys(EntriesAfter(st, prefix, delimited, token)),
           Min(Min(n, maxKeys),
               Cardinality(EntriesAfter(st, prefix, delimited, token))))

\* the page lengths the backend may choose for a request of maxKeys keys: at
\* least one entry while entries are left
PageLensOf(left, maxKeys) == IF left = 0 THEN {0} ELSE 1..Min(maxKeys, left)

PageLens(st, prefix, delimited, token, maxKeys) ==
  PageLensOf(Cardinality(EntriesAfter(st, prefix, delimited, token)), maxKeys)

----------------------------------------------------------------------------
(* The link cache (package cache) and GenerateDownloadLink *)

\* "expiryTime := 15 * time.Minute", in minutes
ExpiryTime == 15

NoLink == <<>>

\* the URL req.Presign returns: it names the key and carries the signing time
PresignURL(key, t) == <<key, t>>

\* cache.Get: an entry is served iff now < expires_at
CacheGet(c, key, t) ==
  IF key \in DOMAIN c /\ t < c[key].expires
  THEN [url |-> c[key].url, found |-> TRUE]
  ELSE [url |-> NoLink, found |-> FALSE]

\* cache.Set
CacheSet(c, key, url, expires) ==
  [k \in DOMAIN c \cup {key} |->
     IF k = key THEN [url |-> url, expires |-> expires] ELSE c[k]]

\* a cache that keeps the first link stored for a key
StoreLinkOnce(c, key, url, t) ==
  IF key \in DOMAIN c THEN c ELSE CacheSet(c, key, url, t + ExpiryTime)

\* a miss branch that stores the link as expiring at once
StoreLinkNoTtl(c, key, url, t) == CacheSet(c, key, url, t)

\* What the miss branch stores: "cache.Set(objectKey, downloadURL,
\* time.Now().Add(expiryTime))"
StoreLink(c, key, url, t) == CacheSet(c, key, url, t + ExpiryTime)

\* "cache.Get(objectKey)" as a call
CacheLookup(objectKey) == [op |-> "get", key |-> objectKey]

\* "req.Presign(expiryTime)" as a call
PresignCall(objectKey) == [op |-> "presign", key |-> objectKey]

\* GenerateDownloadLink run at one instant t; presignOk is whether
\* req.Presign succeeds.  Yields the URL, the error, the cache afterwards
\* and the calls made: the cache lookup and the presign.
GenerateDownloadLink(c, objectKey, t, presignOk) ==
  LET got == CacheGet(c, objectKey, t)
  IN IF got.found
     THEN [url |-> got.url, err |-> FALSE, cache |-> c,
           calls |-> <<CacheLookup(objectKey)>>]
     ELSE IF ~presignOk
     THEN [url |-> NoLink, err |-> TRUE, cache |-> c,
           calls |-> <<CacheLookup(objectKey), PresignCall(objectKey)>>]
     ELSE [url |-> PresignURL(objectKey, t), err |-> FALSE,
           cache |-> StoreLink(c, objectKey, PresignURL(objectKey, t), t),
           calls |-> <<CacheLookup(objectKey), PresignCall(objectKey)>>]

----------------------------------------------------------------------------
(* ListFiles *)

NilPage == [nil |-> TRUE]

\* a listing that forgets to skip the folder's own marker
IsFolderItselfNever(key, folderPath) == FALSE

\* "if *obj.Key == folderPath { continue // skip the folder itself }"
IsFolderItself(key, folderPath) == key = folderPath

\* the record of a common prefix
PrefixRecord(p) ==
  [Name |-> p, IsFolder |-> TRUE, Size |-> 0, DownloadLink |-> NoLink]

\* the record of a content entry, before its link is attached
ContentRecord(obj) ==
  [Name |-> obj.Key, IsFolder |-> (obj.Size = 0), Size |-> obj.Size,
   DownloadLink |-> NoLink]

\* "for _, obj := range resp.Contents": from entry i on, with the records,
\* the file count, the cache and the presign calls so far.  failKey is the
\* key whose presign fails.
RECURSIVE ContentLoop(_, _, _, _, _, _, _, _, _)
ContentLoop(contents, i, folderPath, objects, fileCount, c, calls, t, failKey) ==
  IF i > Len(contents)
  THEN [objects |-> objects, fileCount |-> fileCount, cache |-> c,
        calls |-> calls, err |-> FALSE]
  ELSE IF IsFolderItself(contents[i].Key, folderPath)
  THEN ContentLoop(contents, i + 1, folderPath, objects, fileCount, c, calls,
                   t, failKey)
  ELSE LET link == GenerateDownloadLink(c, contents[i].Key, t,
                                        contents[i].Key # failKey)
           rec  == [ContentRecord(contents[i]) EXCEPT !.DownloadLink = link.url]
       IN IF link.err
          THEN [objects |-> Append(objects, ContentRecord(contents[i])),
                fileCount |-> fileCount + 1, cache |-> link.cache,
                calls |-> calls \o link.calls, err |-> TRUE]
          ELSE ContentLoop(contents, i + 1, folderPath, Append(objects, rec),
                           fileCount + 1, link.cache, calls \o link.calls,
                           t, failKey)

\* a listing that hands back the records built so far next to the error
PresignFailurePartial(loop) ==
  [page |-> [nil |-> FALSE, Files |-> loop.objects], err |-> TRUE,
   cache |-> loop.cache, calls |-> loop.calls]

\* what ListFiles returns when a presign fails: "return nil, err"; objects
\* holds the records built so far and is dropped
PresignFailure(loop) ==
  [page |-> NilPage, err |-> TRUE, cache |-> loop.cache, calls |-> loop.calls]

\* a listing that reports every page as the last one
IsLastPageAlways(resp) == TRUE

\* "IsLastPage: !*resp.IsTruncated"
IsLastPage(resp) == ~resp.IsTruncated

\* a listing that counts the records flagged as folders
FoldersCountByFlag(resp, objects) ==
  Cardinality({i \in 1..Len(objects) : objects[i].IsFolder})

\* a listing that counts every record as a folder
FoldersCountAll(resp, objects) == Len(objects)

\* "FoldersCount: int32(len(resp.CommonPrefixes))"
FoldersCount(resp, objects) == Len(resp.CommonPrefixes)

\* "input := &s3.ListObjectsV2Input{...}"
ListInput(folderPath, nextPageToken, pageSize) ==
  [op |-> "list", prefix |-> folderPath, token |-> nextPageToken,
   maxKeys |-> pageSize + 1]

\* the records of the common prefixes (lines 572-579)
PrefixRecords(resp) ==
  [i \in 1..Len(resp.CommonPrefixes) |-> PrefixRecord(resp.CommonPrefixes[i])]

\* a listing that runs the loop over the contents whatever isFolder is
RecordsLoopAlways(resp, folderPath, isFolder, c, t, failKey, input) ==
  ContentLoop(resp.Contents, 1, folderPath, PrefixRecords(resp), 0, c,
              <<input>>, t, failKey)

\* "if !isFolder { for _, obj := range resp.Contents ... }"
RecordsLoop(resp, folderPath, isFolder, c, t, failKey, input) ==
  IF isFolder
  THEN [objects |-> PrefixRecords(resp), fileCount |-> 0, cache |-> c,
        calls |-> <<input>>, err |-> FALSE]
  ELSE ContentLoop(resp.Contents, 1, folderPath, PrefixRecords(resp), 0, c,
                   <<input>>, t, failKey)

\* what ListFiles returns, given the backend's response and the outcome of
\* its loops: the page (or nil), the error, the cache afterwards, the
\* backend calls made, the response, and the local variable objects
ListFilesReturn(listOk, resp, loop, folderPath, c, input) ==
  IF ~listOk
  THEN [page |-> NilPage, err |-> TRUE, cache |-> c, calls |-> <<input>>,
        resp |-> resp, folderPath |-> folderPath, objects |-> <<>>]
  ELSE IF loop.err
  THEN PresignFailure(loop) @@
       [resp |-> resp, folderPath |-> folderPath, objects |-> loop.objects]
  ELSE [page |-> [nil |-> FALSE,
                  Files |-> loop.objects,
                  NextPageToken |-> resp.NextContinuationToken,
                  IsLastPage |-> IsLastPage(resp),
                  NoOfRecordsReturned |-> Len(loop.objects),
                  FilesCount |-> loop.fileCount,
                  FoldersCount |-> FoldersCount(resp, loop.objects)],
        err |-> FALSE, cache |-> loop.cache, calls |-> loop.calls,
        resp |-> resp, folderPath |-> folderPath, objects |-> loop.objects]

\* ListFiles from the backend's response resp on, folderPath normalized
ListFilesOn(resp, c, t, folderPath, nextPageToken, pageSize, isFolder, listOk, failKey) ==
  ListFilesReturn(listOk, resp,
                  RecordsLoop(resp, folderPath, isFolder, c, t, failKey,
                              ListInput(folderPath, nextPageToken, pageSize)),
                  folderPath, c,
                  ListInput(folderPath, nextPageToken, pageSize))

\* ListFiles(folderPath, nextPageToken, pageSize, isFolder, cache) against
\* bucket st at instant t.  n is the page length the backend chooses, listOk
\* whether ListObjectsV2 succeeds, failKey the key whose presign fails.
ListFiles(st, c, t, folderPath, nextPageToken, pageSize, isFolder, n, listOk, failKey) ==
  ListFilesOn(IF listOk
              THEN ListObjectsV2(st, NormalizeFolderPath(folderPath), TRUE,
                                 nextPageToken, pageSize + 1, n)
              ELSE EmptyOutput,
              c, t, NormalizeFolderPath(folderPath), nextPageToken, pageSize,
              isFolder, listOk, failKey)

----------------------------------------------------------------------------
(* listFilesHandler, called page after page by one client *)

EmptyCache == [k \in {} |-> [url |-> NoLink, expires |-> 0]]

\* the caches earlier requests can have left behind at time 0: nothing, a
\* link still valid, a link that has expired
InitCaches ==
  LET k == <<"a", "/", "a">>
  IN { EmptyCache,
       CacheSet(EmptyCache, k, PresignURL(k, 0), ExpiryTime),
       CacheSet(EmptyCache, k, PresignURL(k, 0 - ExpiryTime), 0) }

\* the last call of ListFiles: what it returned, the backend calls it made,
\* the backend's response, the local variable objects when it returned, and
\* which of its backend calls were made to fail
NoCall ==
  [page |-> NilPage, err |-> FALSE, calls |-> <<>>, resp |-> EmptyOutput,
   folderPath |-> <<>>, objects |-> <<>>, listOk |-> TRUE, failKey |-> Nil]

LpIdle ==
  [phase |-> "idle", path |-> <<>>, pageSize |-> 1, isFolder |-> FALSE,
   token |-> Nil, acc |-> <<>>, pages |-> 0, last |-> NoCall]

\* the client's state after a call of ListFiles that returned r
LpAfter(l, r, listOk, failKey) ==
  [l EXCEPT !.last = [page |-> r.page, err |-> r.err, calls |-> r.calls,
                      resp |-> r.resp, folderPath |-> r.folderPath,
                      objects |-> r.objects, listOk |-> listOk,
                      failKey |-> failKey],
            !.pages = @ + 1,
            !.phase = IF r.err THEN "failed"
                      ELSE IF r.page.IsLastPage THEN "done" ELSE "more",
            !.acc = IF r.err THEN @ ELSE @ \o r.page.Files,
            !.token = IF r.err THEN @ ELSE r.page.NextPageToken]

\* the presign of failKey is among the backend calls
Presigned(calls, failKey) ==
  \E i \in 1..Len(calls) : calls[i].op = "presign" /\ calls[i].key = failKey

\* the handler once ListFiles has returned r; a presign is made to fail
\* only if it is called
ListPageReturn(l, r, listOk, failKey) ==
  /\ failKey = Nil \/ Presigned(r.calls, failKey)
  /\ lp' = LpAfter(l, r, listOk, failKey)
  /\ cache' = r.cache
  /\ UNCHANGED <<store, now, df, lf, dl, hist, signs, cf, dfile, la>>

\* one request GET /list with the x-next header taken from l.token
ListPage(l) ==
  \E listOk \in BOOLEAN, failKey \in {Nil, <<"a", "/", "a">>, <<"b">>} :
    \E n \in PageLens(store, NormalizeFolderPath(l.path), TRUE, l.token,
                      l.pageSize + 1) :
      ListPageReturn(l, ListFiles(store, cache, now, l.path, l.token,
                                  l.pageSize, l.isFolder, n, listOk, failKey),
                     listOk, failKey)

\* the first page: no continuation token
ListFirstPage ==
  /\ lp.phase = "idle"
  /\ \E p \in Paths, pageSize \in 1..MaxPageSize, isFolder \in BOOLEAN :
       ListPage([LpIdle EXCEPT !.path = p, !.pageSize = pageSize,
                               !.isFolder = isFolder])

\* a later page: the token of the page before
ListNextPage ==
  /\ lp.phase = "more"
  /\ ListPage(lp)

----------------------------------------------------------------------------
(* Properties of ListFiles *)

\* a record without its link: what two listings of one bucket can agree on
Plain(rec) == [Name |-> rec.Name, IsFolder |-> rec.IsFolder, Size |-> rec.Size]

PlainSeq(recs) == [i \in 1..Len(recs) |-> Plain(recs[i])]

\* the records of one unpaginated delimiter listing of folder path p: what
\* ListFiles builds when the backend returns every entry in a single page
Unpaginated(st, p, isFolder) ==
  LET all == Cardinality(Entries(st, NormalizeFolderPath(p), TRUE))
  IN PlainSeq(ListFiles(st, EmptyCache, 0, p, Nil, all + 1, isFolder, all + 1,
                        TRUE, Nil).page.Files)

\* records built from common prefixes end with the delimiter, records built
\* from content entries do not
FromPrefix(rec) == HasSuffix(rec.Name, "/")

FromContent(rec) == ~HasSuffix(rec.Name, "/")

Normalized(p) ==
  IF p = <<>> THEN p
  ELSE IF p[Len(p)] = "/" THEN p ELSE Append(p, "/")

\* C4: no record of a page returned by list_page is named like the
\* normalized folder path itself.
C4_NoSelfRecord ==
  ~lp.last.page.nil =>
    \A i \in 1..Len(lp.last.page.Files) :
      lp.last.page.Files[i].Name # Normalized(lp.path)

\* a page was returned for a folder whose own marker the backend listed
C4_Witness ==
  /\ ~lp.last.page.nil
  /\ ~lp.isFolder
  /\ \E i \in 1..Len(lp.last.resp.Contents) :
       lp.last.resp.Contents[i].Key = Normalized(lp.path)

\* the content entries of a backend response that are not the folder itself
Children(resp, p) ==
  {i \in 1..Len(resp.Contents) : resp.Contents[i].Key # Normalized(p)}

\* C7: with want_folders_only false a page holds exactly one folder record
\* (is_folder, size 0) per common prefix of the backend response and exactly
\* one record per content entry other than the folder itself, that one with
\* is_folder = (size = 0) and a download link; files_count counts the
\* content records and folders_count the common prefixes.
C7_PageShape ==
  (~lp.last.page.nil /\ ~lp.isFolder) =>
    LET page == lp.last.page
        resp == lp.last.resp
        kids == Children(resp, lp.path)
        At(name) == {i \in 1..Len(page.Files) : page.Files[i].Name = name}
    IN /\ \A j \in 1..Len(resp.CommonPrefixes) :
            /\ Cardinality(At(resp.CommonPrefixes[j])) = 1
            /\ \A i \in At(resp.CommonPrefixes[j]) :
                 page.Files[i].IsFolder /\ page.Files[i].Size = 0
       /\ \A j \in kids :
            /\ Cardinality(At(resp.Contents[j].Key)) = 1
            /\ \A i \in At(resp.Contents[j].Key) :
                 /\ page.Files[i].IsFolder = (resp.Contents[j].Size = 0)
                 /\ page.Files[i].Size = resp.Contents[j].Size
                 /\ page.Files[i].DownloadLink # NoLink
                 /\ page.Files[i].DownloadLink[1] = resp.Contents[j].Key
       /\ Len(page.Files) = Len(resp.CommonPrefixes) + Cardinality(kids)
       /\ page.FilesCount = Cardinality(kids)
       /\ page.FoldersCount = Len(resp.CommonPrefixes)

\* a page with a folder record, a file record and the folder's marker skipped
C7_Witness ==
  /\ ~lp.last.page.nil
  /\ ~lp.isFolder
  /\ lp.last.page.FilesCount >= 1
  /\ lp.last.page.FoldersCount >= 1
  /\ Children(lp.last.resp, lp.path) # 1..Len(lp.last.resp.Contents)

\* the presign of the key made to fail was called
PresignFailed(call) ==
  \E i \in 1..Len(call.calls) :
    /\ call.calls[i].op = "presign"
    /\ call.calls[i].key = call.failKey

\* C10: when the backend list call or a presign call fails, list_page returns
\* the error and no page, whatever records it had built.
C10_NoPartialPage ==
  (lp.pages >= 1 /\ (~lp.last.listOk \/ PresignFailed(lp.last))) =>
    lp.last.err /\ lp.last.page = NilPage

\* a presign failed after records had been built
C10_Witness ==
  /\ lp.pages >= 1
  /\ lp.last.listOk
  /\ PresignFailed(lp.last)
  /\ Len(lp.last.objects) >= 2

\* C22: in every page list_page returns, files_count + folders_count is the
\* number of records in files, which is also the reported number of records
\* returned.
C22_CountsAddUp ==
  (lp.pages >= 1 /\ ~lp.last.err) =>
    /\ lp.last.page.FilesCount + lp.last.page.FoldersCount
         = Len(lp.last.page.Files)
    /\ lp.last.page.NoOfRecordsReturned = Len(lp.last.page.Files)

\* a page with a folder record of a common prefix and the record of a
\* zero-size object, which is flagged as a folder and counted as a file
C22_Witness ==
  /\ lp.pages >= 1 /\ ~lp.last.err /\ ~lp.isFolder
  /\ lp.last.page.FoldersCount >= 1
  /\ lp.last.page.FilesCount >= 1
  /\ \E i \in 1..Len(lp.last.page.Files) :
       /\ lp.last.page.Files[i].IsFolder
       /\ ~HasSuffix(lp.last.page.Files[i].Name, "/")

\* C14: a call of list_page with want_folders_only true makes the list
\* call and no other: no link-cache lookup, no presign, the cache is left as
\* it was; the page it returns holds exactly the folder records of the
\* common prefixes of the response, none for a content entry, and its
\* files_count is 0.
C14_FoldersOnly ==
  [][(lp' # lp /\ lp'.isFolder) =>
       /\ cache' = cache
       /\ \A i \in 1..Len(lp'.last.calls) : lp'.last.calls[i].op = "list"
       /\ ~lp'.last.err =>
            /\ lp'.last.page.Files = PrefixRecords(lp'.last.resp)
            /\ \A i \in 1..Len(lp'.last.page.Files) :
                 /\ lp'.last.page.Files[i].IsFolder
                 /\ \A j \in 1..Len(lp'.last.resp.Contents) :
                      lp'.last.page.Files[i].Name # lp'.last.resp.Contents[j].Key
            /\ lp'.last.page.FilesCount = 0]_vars

\* a folders-only page of a response that held a common prefix and a
\* content entry other than the folder itself
C14_Witness ==
  /\ lp.pages >= 1 /\ lp.isFolder /\ ~lp.last.err
  /\ Len(lp.last.resp.CommonPrefixes) >= 1
  /\ \E j \in 1..Len(lp.last.resp.Contents) :
       ~IsFolderItself(lp.last.resp.Contents[j].Key, lp.last.folderPath)
  /\ Len(lp.last.page.Files) >= 1

----------------------------------------------------------------------------
(* createFolderHandler and CreateFolder *)

\* the paths create-folder requests carry
CreatePaths == Paths \cup { <<"/">>, <<"b", "/">>, <<"a", "/", "b", "/">> }

\* the HTTP statuses of the handler
StatusOK == 200

StatusBadRequest == 400

StatusInternalServerError == 500

\* no request yet; before is the bucket when the request arrived
CfIdle ==
  [status |-> 0, path |-> <<>>, calls |-> <<>>, putOk |-> FALSE,
   before |-> <<>>]

\* "if string(folderName[len(folderName)-1]) != "/" { folderName += "/" }"
\* of the handler, reached with a non-empty folderName only
AppendSlash(folderName) ==
  IF folderName[Len(folderName)] # "/" THEN folderName \o <<"/">>
  ELSE folderName

\* "input := &s3.PutObjectInput{Bucket, Key}"
PutInput(folderPath) == [op |-> "put", key |-> folderPath]

\* a backend that accepts the put and writes nothing
PutObjectNothing(st, key) == st

\* s.svc.PutObject with no body: the object key exists with size 0,
\* replacing what the key held
PutObject(st, key) ==
  [k \in DOMAIN st \cup {key} |-> IF k = key THEN 0 ELSE st[k]]

\* S3.CreateFolder(folderPath) with the backend answering ok: the bucket
\* afterwards, the error, the backend calls
CreateFolder(st, folderPath, ok) ==
  LET key == NormalizeFolderPath(folderPath)
  IN [store |-> IF ok THEN PutObject(st, key) ELSE st,
      err   |-> ~ok,
      calls |-> <<PutInput(key)>>]

\* createFolderHandler for one request: clientOk is whether s3.NewClient
\* succeeds, ok whether the backend accepts the put
CreateFolderRequest ==
  /\ cf.status = 0
  /\ \E folderName \in CreatePaths, clientOk \in BOOLEAN, ok \in BOOLEAN :
       LET asked == [CfIdle EXCEPT !.path = folderName, !.before = store]
       IN IF folderName = <<>>
          THEN /\ cf' = [asked EXCEPT !.status = StatusBadRequest]
               /\ store' = store
          ELSE IF ~clientOk
          THEN /\ cf' = [asked EXCEPT !.status = StatusInternalServerError]
               /\ store' = store
          ELSE LET r == CreateFolder(store, AppendSlash(folderName), ok)
               IN /\ store' = r.store
                  /\ cf' = [asked EXCEPT
                              !.calls = r.calls,
                              !.putOk = ~r.err,
                              !.status = IF r.err
                                         THEN StatusInternalServerError
                                         ELSE StatusOK]
  /\ UNCHANGED <<cache, now, lp, df, lf, dl, hist, signs, dfile, la>>

\* the key of the marker of path: the path, with one delimiter appended
\* when it does not end with one
MarkerKey(path) == IF HasSuffix(path, "/") THEN path ELSE path \o <<"/">>

\* C13: a create-folder request with an empty path is answered 400 with no
\* backend call and no change of the bucket; a request with a non-empty
\* path that reaches the backend issues exactly one put, of the marker key,
\* and an accepted put leaves the bucket with that key of size 0 added or
\* replaced and every other key as before.
C13_CreateFolderValidated ==
  cf.status # 0 =>
    IF cf.path = <<>>
    THEN cf.status = StatusBadRequest /\ cf.calls = <<>> /\ store = cf.before
    ELSE /\ cf.status # StatusBadRequest
         /\ cf.calls \in {<<>>, <<PutInput(MarkerKey(cf.path))>>}
         /\ cf.status = StatusOK <=> cf.putOk
         /\ cf.putOk =>
              /\ Len(cf.calls) = 1
              /\ DOMAIN store = DOMAIN cf.before \cup {MarkerKey(cf.path)}
              /\ store[MarkerKey(cf.path)] = 0
              /\ \A k \in DOMAIN cf.before :
                    k # MarkerKey(cf.path) => store[k] = cf.before[k]
         /\ ~cf.putOk => store = cf.before

\* a request for a path without trailing delimiter that created a marker
\* the bucket did not hold
C13_Witness ==
  /\ cf.status = StatusOK
  /\ cf.path = <<"a", "/", "b">>
  /\ <<"a", "/", "b", "/">> \notin DOMAIN cf.before
  /\ <<"a", "/", "b", "/">> \in DOMAIN store

\* a request with an empty path, refused
C13_WitnessEmpty ==
  cf.status = StatusBadRequest /\ cf.path = <<>>

----------------------------------------------------------------------------
(* DeleteObject and DeleteFolder *)

\* the largest number of list calls of one run that the model follows
MaxCalls == 6

\* "MaxKeys: aws.Int64(2)" of DeleteFolder's first listing
FirstMaxKeys == 2

\* "MaxKeys: aws.Int64(1000)" of the flat scans
ScanMaxKeys == 1000

\* s.svc.DeleteObject: the SDK rejects an empty key before any request is
\* sent; otherwise the delete succeeds unless the backend fails (ok), and
\* deleting a key the bucket does not hold succeeds too
DeleteObjectOk(key, ok) == key # <<>> /\ ok

DeleteFrom(st, key) == [k \in DOMAIN st \ {key} |-> st[k]]

\* the first listing's loop: every key but the folder itself is collected
RECURSIVE CollectFirst(_, _, _, _)
CollectFirst(contents, i, folderPath, allObjects) ==
  IF i > Len(contents) THEN allObjects
  ELSE IF IsFolderItself(contents[i].Key, folderPath)
  THEN CollectFirst(contents, i + 1, folderPath, allObjects)
  ELSE CollectFirst(contents, i + 1, folderPath,
                    Append(allObjects, contents[i].Key))

\* "if nextToken == nil { break }", inside the loop over a later page
BreakOnNil(nextToken) == nextToken = Nil

\* a loop over a later page that neither collects a key nor updates the
\* token
CollectNextStuck(contents, i, folderPath, allObjects, nextToken, currToken) ==
  [allObjects |-> allObjects, nextToken |-> nextToken]

\* the loop over a later page curr: the folder itself is skipped by continue,
\* so before the token is updated; every other key is collected, then the
\* token is updated and the loop left when there is no further page
RECURSIVE CollectNext(_, _, _, _, _, _)
CollectNext(contents, i, folderPath, allObjects, nextToken, currToken) ==
  IF i > Len(contents)
  THEN [allObjects |-> allObjects, nextToken |-> nextToken]
  ELSE IF IsFolderItself(contents[i].Key, folderPath)
  THEN CollectNext(contents, i + 1, folderPath, allObjects, nextToken, currToken)
  ELSE IF BreakOnNil(currToken)
  THEN [allObjects |-> Append(allObjects, contents[i].Key),
        nextToken |-> currToken]
  ELSE CollectNext(contents, i + 1, folderPath,
                   Append(allObjects, contents[i].Key), currToken, currToken)

DfIdle ==
  [pc |-> "idle", folderPath |-> <<>>, allObjects |-> <<>>, nextToken |-> Nil,
   idx |-> 1, err |-> FALSE, calls |-> <<>>]

\* a DeleteFolder that deletes what each page collected before it lists the
\* next page
DfNextPcEager(pc, nextToken, idx, len) ==
  IF pc \in {"list_first", "list_next", "delete"}
  THEN IF idx <= len THEN "delete"
       ELSE IF nextToken # Nil THEN "list_next" ELSE "delete_folder"
  ELSE "done"

\* where DeleteFolder goes after a step that did not fail: listing while
\* there is a token, then the deletes in order, then the folder itself
DfNextPc(pc, nextToken, idx, len) ==
  IF pc \in {"list_first", "list_next"}
  THEN IF nextToken # Nil THEN "list_next"
       ELSE IF idx <= len THEN "delete" ELSE "delete_folder"
  ELSE IF pc = "delete"
  THEN IF idx <= len THEN "delete" ELSE "delete_folder"
  ELSE "done"

DfListCall(prefix, token, maxKeys) ==
  [op |-> "list", prefix |-> prefix, token |-> token, maxKeys |-> maxKeys]

\* a delete loop that runs over the collected keys from the last to the
\* first
NextToDeleteReversed(allObjects, idx) == allObjects[Len(allObjects) - idx + 1]

\* "for _, obj := range allObjects { s.DeleteObject(obj.Name) }": the key
\* of turn idx of the loop
NextToDelete(allObjects, idx) == allObjects[idx]

\* a call of s.DeleteObject(key) and whether it returned nil
DfDeleteCall(key, ok) == [op |-> "delete", key |-> key, ok |-> ok]

\* a delete loop that drops the error of a delete and goes on with the next
\* collected key
DeleteFailedGoOn(d, call) ==
  [d EXCEPT !.err = TRUE,
            !.idx = @ + 1,
            !.calls = Append(@, call),
            !.pc = DfNextPc("delete", d.nextToken, d.idx + 1,
                            Len(d.allObjects))]

\* "if err != nil { return err }" of the delete loop (lines 841-843)
DeleteFailed(d, call) ==
  [d EXCEPT !.err = TRUE, !.pc = "done", !.calls = Append(@, call)]

\* DeleteFolder up to and including its first listing (lines 768-801)
DeleteFolderFirst ==
  /\ df.pc = "idle"
  /\ \E p \in Paths, ok \in BOOLEAN :
       LET folderPath == NormalizeFolderPath(p)
       IN \E n \in PageLens(store, folderPath, FALSE, Nil, FirstMaxKeys) :
            LET resp == IF ok
                        THEN ListObjectsV2(store, folderPath, FALSE, Nil,
                                           FirstMaxKeys, n)
                        ELSE EmptyOutput
                all  == CollectFirst(resp.Contents, 1, folderPath, <<>>)
            IN df' = [DfIdle EXCEPT
                        !.folderPath = folderPath,
                        !.allObjects = all,
                        !.nextToken = resp.NextContinuationToken,
                        !.err = ~ok,
                        !.calls = <<DfListCall(folderPath, Nil, FirstMaxKeys)>>,
                        !.pc = IF ~ok THEN "done"
                               ELSE DfNextPc("list_first",
                                             resp.NextContinuationToken,
                                             1, Len(all))]
  /\ UNCHANGED <<store, cache, now, lp, lf, dl, hist, signs, cf, dfile, la>>

\* one turn of "for nextToken != nil" (lines 803-837)
DeleteFolderNext ==
  /\ df.pc = "list_next"
  /\ Len(df.calls) < MaxCalls
  /\ \E ok \in BOOLEAN :
       \E n \in PageLens(store, df.folderPath, FALSE, df.nextToken, ScanMaxKeys) :
         LET curr == IF ok
                     THEN ListObjectsV2(store, df.folderPath, FALSE,
                                        df.nextToken, ScanMaxKeys, n)
                     ELSE EmptyOutput
             got  == CollectNext(curr.Contents, 1, df.folderPath,
                                 df.allObjects, df.nextToken,
                                 curr.NextContinuationToken)
             call == DfListCall(df.folderPath, df.nextToken, ScanMaxKeys)
         IN df' = IF ~ok
                  THEN [df EXCEPT !.err = TRUE, !.pc = "done",
                                  !.calls = Append(@, call)]
                  ELSE [df EXCEPT
                          !.allObjects = got.allObjects,
                          !.nextToken = got.nextToken,
                          !.calls = Append(@, call),
                          !.pc = DfNextPc("list_next", got.nextToken, df.idx,
                                          Len(got.allObjects))]
  /\ UNCHANGED <<store, cache, now, lp, lf, dl, hist, signs, cf, dfile, la>>

\* one turn of "for _, obj := range allObjects" (lines 839-844)
DeleteFolderDelete ==
  /\ df.pc = "delete"
  /\ \E ok \in BOOLEAN :
       LET key  == NextToDelete(df.allObjects, df.idx)
           call == DfDeleteCall(key, DeleteObjectOk(key, ok))
       IN IF DeleteObjectOk(key, ok)
          THEN /\ store' = DeleteFrom(store, key)
               /\ df' = [df EXCEPT
                           !.idx = @ + 1,
                           !.calls = Append(@, call),
                           !.pc = DfNextPc("delete", df.nextToken, df.idx + 1,
                                           Len(df.allObjects))]
          ELSE /\ store' = store
               /\ df' = DeleteFailed(df, call)
  /\ UNCHANGED <<cache, now, lp, lf, dl, hist, signs, cf, dfile, la>>

\* "delete the folder itself" (lines 846-853)
DeleteFolderItself ==
  /\ df.pc = "delete_folder"
  /\ \E ok \in BOOLEAN :
       LET call == DfDeleteCall(df.folderPath,
                               DeleteObjectOk(df.folderPath, ok))
       IN IF DeleteObjectOk(df.folderPath, ok)
          THEN /\ store' = DeleteFrom(store, df.folderPath)
               /\ df' = [df EXCEPT !.pc = "done", !.calls = Append(@, call)]
          ELSE /\ store' = store
               /\ df' = [df EXCEPT !.err = TRUE, !.pc = "done",
                                   !.calls = Append(@, call)]
  /\ UNCHANGED <<cache, now, lp, lf, dl, hist, signs, cf, dfile, la>>

\* C1: when delete_folder(p) returns success, the bucket holds no key with
\* the normalized p as prefix, the marker included.
C1_NoResidue ==
  (df.pc = "done" /\ ~df.err) =>
    \A k \in DOMAIN store : ~HasPrefix(k, df.folderPath)

\* C8: every backend list call of a delete_folder run is issued before its
\* first backend delete call.
C8_ListBeforeDelete ==
  \A i, j \in 1..Len(df.calls) :
    (df.calls[i].op = "delete" /\ df.calls[j].op = "list") => j < i

\* a run that listed several pages and went on to delete
C8_Witness ==
  /\ Cardinality({i \in 1..Len(df.calls) : df.calls[i].op = "list"}) >= 2
  /\ Cardinality({i \in 1..Len(df.calls) : df.calls[i].op = "delete"}) >= 2

\* the delete calls of the run so far, as indices into its log of calls
DeleteCalls == {i \in 1..Len(df.calls) : df.calls[i].op = "delete"}

\* C11: when the delete of a collected key fails, no further backend call is
\* issued (no delete of a remaining key, none of the folder marker), the
\* run ends with the error, and every key deleted before stays deleted.
C11_FailedDeleteAborts ==
  \A i \in DeleteCalls :
    ~df.calls[i].ok =>
      /\ i = Len(df.calls)
      /\ df.pc = "done" /\ df.err
      /\ \A j \in DeleteCalls : j < i => df.calls[j].key \notin DOMAIN store

\* a run whose second delete failed with collected keys still to delete
C11_Witness ==
  /\ df.pc = "done" /\ df.err
  /\ Cardinality(DeleteCalls) = 2
  /\ ~df.calls[Len(df.calls)].ok
  /\ df.idx < Len(df.allObjects)
  /\ \E k \in DOMAIN store : HasPrefix(k, df.folderPath) /\ k # df.allObjects[df.idx]

IsDelete(call) == call.op = "delete"

\* the keys of the delete calls of the run so far, in the order of the calls
DeletedKeys ==
  LET dels == SelectSeq(df.calls, IsDelete)
  IN [i \in 1..Len(dels) |-> dels[i].key]

\* C15: in a delete_folder run in which every delete succeeded, the delete
\* calls are those of the collected keys, one each, in the order collected,
\* followed by the delete of the normalized folder path, which is the last
\* backend call of the run.
C15_DeleteInOrder ==
  (df.pc = "done" /\ ~df.err) =>
    /\ DeletedKeys = df.allObjects \o <<df.folderPath>>
    /\ \A i \in DeleteCalls : df.calls[i].ok
    /\ df.calls[Len(df.calls)] = DfDeleteCall(df.folderPath, TRUE)

\* a successful run that collected keys on two pages
C15_Witness ==
  /\ df.pc = "done" /\ ~df.err
  /\ Len(df.allObjects) >= 3
  /\ Cardinality({i \in 1..Len(df.calls) : df.calls[i].op = "list"}) >= 2
  /\ Len(df.calls) = Len(df.allObjects) + 3

\* C18: every delete_folder run ends, whatever the bucket, the folder path,
\* the pages the backend cuts the listing into and the calls that fail.
C18_DeleteFolderTerminates == <>(df.pc = "done")

\* a run that ended without error after a listing of three pages
C18_Witness ==
  /\ df.pc = "done" /\ ~df.err
  /\ Cardinality({i \in 1..Len(df.calls) : df.calls[i].op = "list"}) = 3
  /\ df.folderPath # <<>>
  /\ Len(df.allObjects) = 3

----------------------------------------------------------------------------
(* ListAllFolders *)

\* the record ListAllFolders keeps of a zero-size object
FolderRecord(obj) ==
  [Name |-> obj.Key, IsFolder |-> (obj.Size = 0), Size |-> obj.Size]

\* "if *obj.Size == 0 { allObjects = append(...) }"
KeepIfEmpty(allObjects, obj) ==
  IF obj.Size = 0 THEN Append(allObjects, FolderRecord(obj)) ELSE allObjects

\* the first listing's loop (lines 871-885)
RECURSIVE FoldersFirst(_, _, _, _)
FoldersFirst(contents, i, folderPath, allObjects) ==
  IF i > Len(contents) THEN allObjects
  ELSE IF IsFolderItself(contents[i].Key, folderPath)
  THEN FoldersFirst(contents, i + 1, folderPath, allObjects)
  ELSE FoldersFirst(contents, i + 1, folderPath,
                    KeepIfEmpty(allObjects, contents[i]))

\* the loop over a later page (lines 901-921): as in DeleteFolder the token
\* is updated, and the loop left on nil, after each entry that is not the
\* folder itself
RECURSIVE FoldersNext(_, _, _, _, _, _)
FoldersNext(contents, i, folderPath, allObjects, nextToken, currToken) ==
  IF i > Len(contents)
  THEN [allObjects |-> allObjects, nextToken |-> nextToken]
  ELSE IF IsFolderItself(contents[i].Key, folderPath)
  THEN FoldersNext(contents, i + 1, folderPath, allObjects, nextToken, currToken)
  ELSE IF BreakOnNil(currToken)
  THEN [allObjects |-> KeepIfEmpty(allObjects, contents[i]),
        nextToken |-> currToken]
  ELSE FoldersNext(contents, i + 1, folderPath,
                   KeepIfEmpty(allObjects, contents[i]), currToken, currToken)

LfIdle ==
  [pc |-> "idle", folderPath |-> <<>>, allObjects |-> <<>>, nextToken |-> Nil,
   failed |-> FALSE, calls |-> <<>>]

\* ListAllFolders up to and including its first listing (lines 857-891); on
\* an error it returns what it has, which is nothing
ListAllFoldersFirst ==
  /\ lf.pc = "idle"
  /\ \E p \in Paths, ok \in BOOLEAN :
       LET folderPath == NormalizeFolderPath(p)
       IN \E n \in PageLens(store, folderPath, FALSE, Nil, ScanMaxKeys) :
            LET resp == IF ok
                        THEN ListObjectsV2(store, folderPath, FALSE, Nil,
                                           ScanMaxKeys, n)
                        ELSE EmptyOutput
            IN lf' = [LfIdle EXCEPT
                        !.folderPath = folderPath,
                        !.allObjects = FoldersFirst(resp.Contents, 1,
                                                    folderPath, <<>>),
                        !.nextToken = resp.NextContinuationToken,
                        !.failed = ~ok,
                        !.calls = <<DfListCall(folderPath, Nil, ScanMaxKeys)>>,
                        !.pc = IF ok /\ resp.NextContinuationToken # Nil
                               THEN "list_next" ELSE "done"]
  /\ UNCHANGED <<store, cache, now, lp, df, dl, hist, signs, cf, dfile, la>>

\* one turn of "for nextToken != nil" (lines 893-923): the error of the
\* listing is dropped ("curr, _ :=") and the loop runs over an empty page
ListAllFoldersNext ==
  /\ lf.pc = "list_next"
  /\ Len(lf.calls) < MaxCalls
  /\ \E ok \in BOOLEAN :
       \E n \in PageLens(store, lf.folderPath, FALSE, lf.nextToken, ScanMaxKeys) :
         LET curr == IF ok
                     THEN ListObjectsV2(store, lf.folderPath, FALSE,
                                        lf.nextToken, ScanMaxKeys, n)
                     ELSE EmptyOutput
             got  == FoldersNext(curr.Contents, 1, lf.folderPath,
                                 lf.allObjects, lf.nextToken,
                                 curr.NextContinuationToken)
         IN lf' = [lf EXCEPT
                     !.allObjects = got.allObjects,
                     !.nextToken = got.nextToken,
                     !.failed = @ \/ ~ok,
                     !.calls = Append(@, DfListCall(lf.folderPath,
                                                    lf.nextToken, ScanMaxKeys)),
                     !.pc = IF got.nextToken # Nil THEN "list_next" ELSE "done"]
  /\ UNCHANGED <<store, cache, now, lp, df, dl, hist, signs, cf, dfile, la>>

\* C6: list_all_folders(p) returns exactly one record for every zero-size
\* key under the normalized p other than the normalized p itself, and no
\* other record, when no backend call fails.
C6_AllEmptyKeys ==
  (lf.pc = "done" /\ ~lf.failed) =>
    LET want == {k \in DOMAIN store :
                   HasPrefix(k, lf.folderPath) /\ k # lf.folderPath /\ store[k] = 0}
    IN /\ {lf.allObjects[i].Name : i \in 1..Len(lf.allObjects)} = want
       /\ Len(lf.allObjects) = Cardinality(want)

\* C17: once a backend list call of a list_all_folders run has failed, the
\* run has returned and issues no further backend call.
C17_NoRetry ==
  [][/\ lf'.failed => lf'.pc = "done"
     /\ lf.failed => Len(lf'.calls) = Len(lf.calls)]_vars

----------------------------------------------------------------------------
(* downloadFileHandler: GenerateDownloadLink on the shared cache, step by  *)
(* step.  The lookup happens at one instant; the presign and the store of  *)
(* a miss happen at a later one.                                           *)

\* the number of download requests the model follows
MaxRequests == 3

\* the clock advances in steps of TickStep minutes up to MaxTime
TickStep == 5

MaxTime == 20

\* the keys download links are asked for
LinkKeys == { <<"a">>, <<"b">> }

Slots == {1, 2}

\* the number of requests the model follows when requests run concurrently
MaxRaces == 2

DlIdle == [pc |-> "idle", key |-> <<>>, getAt |-> 0, url |-> NoLink]

\* a URL req.Presign returned for key
Signed(key, url) == [key |-> key, url |-> url]

Answer(key, url, err, getAt, doneAt, presigned) ==
  [key |-> key, url |-> url, err |-> err, getAt |-> getAt, doneAt |-> doneAt,
   presigned |-> presigned]

InFlight == {r \in Slots : dl[r].pc # "idle"}

\* "url, found := cache.Get(objectKey); if found { return url, nil }"
DownloadGet(r) ==
  /\ dl[r].pc = "idle"
  /\ Len(hist) + Cardinality(InFlight) < MaxRequests
  /\ \E key \in LinkKeys :
       LET got == CacheGet(cache, key, now)
       IN IF got.found
          THEN /\ hist' = Append(hist, Answer(key, got.url, FALSE, now, now, FALSE))
               /\ dl' = dl
          ELSE /\ hist' = hist
               /\ dl' = [dl EXCEPT ![r] = [DlIdle EXCEPT !.pc = "presign",
                                                         !.key = key,
                                                         !.getAt = now]]
  /\ UNCHANGED <<store, cache, now, lp, df, lf, signs, cf, dfile, la>>

\* a miss branch that stores an entry without URL when the presign fails
DownloadPresignStoresError(r) ==
  /\ dl[r].pc = "presign"
  /\ \E ok \in BOOLEAN :
       LET key == dl[r].key
           url == IF ok THEN PresignURL(key, now) ELSE NoLink
       IN /\ cache' = StoreLink(cache, key, url, now)
          /\ signs' = IF ok THEN Append(signs, Signed(key, url)) ELSE signs
          /\ hist' = Append(hist, Answer(key, url, ~ok, dl[r].getAt, now, TRUE))
  /\ dl' = [dl EXCEPT ![r] = DlIdle]
  /\ UNCHANGED <<store, now, lp, df, lf, cf, dfile, la>>

\* "downloadURL, err := req.Presign(expiryTime)" and what follows it
DownloadPresign(r) ==
  /\ dl[r].pc = "presign"
  /\ \E ok \in BOOLEAN :
       LET key == dl[r].key
           url == PresignURL(key, now)
       IN IF ok
          THEN /\ cache' = StoreLink(cache, key, url, now)
               /\ signs' = Append(signs, Signed(key, url))
               /\ hist' = Append(hist, Answer(key, url, FALSE, dl[r].getAt,
                                              now, TRUE))
          ELSE /\ cache' = cache
               /\ signs' = signs
               /\ hist' = Append(hist, Answer(key, NoLink, TRUE, dl[r].getAt,
                                              now, TRUE))
  /\ dl' = [dl EXCEPT ![r] = DlIdle]
  /\ UNCHANGED <<store, now, lp, df, lf, cf, dfile, la>>

\* time passes
Tick ==
  /\ now + TickStep <= MaxTime
  /\ now' = now + TickStep
  /\ UNCHANGED <<store, cache, lp, df, lf, dl, hist, signs, cf, dfile, la>>

\* the entry of key that the first i answered requests have left in a cache
\* that keeps a link for ExpiryTime minutes: that of the last request that
\* presigned without error
RECURSIVE StoredAfter(_, _)
StoredAfter(i, key) ==
  IF i = 0 THEN [has |-> FALSE, url |-> NoLink, expires |-> 0]
  ELSE IF hist[i].key = key /\ hist[i].presigned /\ ~hist[i].err
  THEN [has |-> TRUE, url |-> hist[i].url,
        expires |-> hist[i].doneAt + ExpiryTime]
  ELSE StoredAfter(i - 1, key)

\* C5: on one shared cache, a download-link request made before the expiry
\* of the link stored for its key does not presign and returns the stored
\* URL (so two successive requests presign at most once and return the same
\* URL); a request made at or after the expiry presigns again and is not
\* answered with the stored URL.
C5_CachedUntilExpiry ==
  \A j \in 1..Len(hist) :
    LET e == StoredAfter(j - 1, hist[j].key)
    IN IF e.has /\ hist[j].getAt < e.expires
       THEN ~hist[j].presigned /\ ~hist[j].err /\ hist[j].url = e.url
       ELSE hist[j].presigned /\ (e.has => hist[j].url # e.url)

\* three requests for one key: a miss, a hit before the expiry, and a miss
\* after it
C5_Witness ==
  /\ Len(hist) = 3
  /\ hist[1].key = hist[2].key /\ hist[2].key = hist[3].key
  /\ hist[1].presigned /\ ~hist[1].err
  /\ ~hist[2].presigned /\ hist[2].url = hist[1].url
  /\ hist[3].presigned /\ ~hist[3].err /\ hist[3].url # hist[1].url

\* the last request for key among the first n answered, 0 if there is none
RECURSIVE LastFor(_, _, _)
LastFor(h, n, key) ==
  IF n = 0 THEN 0
  ELSE IF h[n].key = key THEN n ELSE LastFor(h, n - 1, key)

\* C21: a download-link request whose presign fails leaves the link cache as
\* it was, and the next request for that key presigns again.
C21_FailedPresignStoresNothing ==
  [][Len(hist') > Len(hist) =>
       LET last == hist'[Len(hist')]
           prev == LastFor(hist, Len(hist), last.key)
       IN /\ last.err => cache' = cache /\ signs' = signs
          /\ (prev # 0 /\ hist[prev].err) => last.presigned]_vars

\* a request whose presign failed, the next request for the same key
\* presigning again, with success, and the cache holding that second URL
C21_Witness ==
  /\ Len(hist) = 2
  /\ hist[1].err /\ hist[1].presigned
  /\ hist[2].key = hist[1].key
  /\ hist[2].presigned /\ ~hist[2].err
  /\ cache[hist[2].key].url = hist[2].url

\* Concurrent requests.  Between the lookup, the presign and the store of
\* one request, the other request and the clock can take steps.

\* "downloadURL, err := req.Presign(expiryTime); if err != nil { return }"
DownloadSign(r) ==
  /\ dl[r].pc = "presign"
  /\ \E ok \in BOOLEAN :
       LET key == dl[r].key
           url == PresignURL(key, now)
       IN IF ok
          THEN /\ dl' = [dl EXCEPT ![r].pc = "store", ![r].url = url]
               /\ signs' = Append(signs, Signed(key, url))
               /\ hist' = hist
          ELSE /\ dl' = [dl EXCEPT ![r] = DlIdle]
               /\ signs' = signs
               /\ hist' = Append(hist, Answer(key, NoLink, TRUE, dl[r].getAt,
                                              now, TRUE))
  /\ UNCHANGED <<store, cache, now, lp, df, lf, cf, dfile, la>>

\* "cache.Set(objectKey, downloadURL, time.Now().Add(expiryTime))" and the
\* return of the URL
DownloadStore(r) ==
  /\ dl[r].pc = "store"
  /\ cache' = StoreLink(cache, dl[r].key, dl[r].url, now)
  /\ hist' = Append(hist, Answer(dl[r].key, dl[r].url, FALSE, dl[r].getAt,
                                 now, TRUE))
  /\ dl' = [dl EXCEPT ![r] = DlIdle]
  /\ UNCHANGED <<store, now, lp, df, lf, signs, cf, dfile, la>>

\* the answered requests that looked up before request i stored and stored
\* after it: the requests that raced with request i for its key
RacedWith(i) ==
  {j \in 1..Len(hist) : /\ j > i
                        /\ hist[j].key = hist[i].key
                        /\ hist[j].presigned /\ ~hist[j].err
                        /\ hist[j].getAt < hist[i].doneAt + ExpiryTime}

\* C12: however two requests for one key interleave on the shared cache,
\* every URL returned was produced by a presign call for that key, every
\* cache entry holds a URL a presign call produced for its key, and once no
\* request is in flight the cache holds, for each key, the URL and the
\* expiry written by the request that stored last.
C12_LastWriteWins ==
  /\ \A i \in 1..Len(hist) :
       ~hist[i].err =>
         \E n \in 1..Len(signs) : signs[n] = Signed(hist[i].key, hist[i].url)
  /\ \A k \in DOMAIN cache :
       \E n \in 1..Len(signs) : signs[n] = Signed(k, cache[k].url)
  /\ InFlight = {} =>
       \A k \in LinkKeys :
         LET e == StoredAfter(Len(hist), k)
         IN IF e.has
            THEN k \in DOMAIN cache /\ cache[k].url = e.url
                                    /\ cache[k].expires = e.expires
            ELSE k \notin DOMAIN cache

\* two requests for one key that both missed and both presigned, the one
\* that presigned first storing last: the cache ends with the older URL
C12_Witness ==
  /\ InFlight = {}
  /\ Len(hist) = 2
  /\ hist[1].presigned /\ ~hist[1].err
  /\ 2 \in RacedWith(1)
  /\ hist[2].url[2] < hist[1].url[2]
  /\ cache[hist[1].key].url = hist[2].url

----------------------------------------------------------------------------
(* deleteFileHandler and DeleteObject, next to download requests *)

\* the number of delete-file requests the model follows
MaxDeletes == 1

\* the bucket the delete-file requests act on
LinkStore ==
  [k \in LinkKeys \cup { <<"a", "/", "a">> } |-> FileSize]

\* the paths delete-file requests carry
DeletePaths == LinkKeys \cup { <<>> }

DfileIdle ==
  [n |-> 0, path |-> <<>>, clientOk |-> FALSE, status |-> 0, calls |-> <<>>]

\* a delete that removes every key under the given one as well
DeleteObjectRecursive(st, objectKey, ok) ==
  IF DeleteObjectOk(objectKey, ok)
  THEN [store |-> [k \in {k \in DOMAIN st : ~HasPrefix(k, objectKey)} |-> st[k]],
        err   |-> FALSE,
        calls |-> <<DfDeleteCall(objectKey, TRUE)>>]
  ELSE [store |-> st, err |-> TRUE,
        calls |-> <<DfDeleteCall(objectKey, FALSE)>>]

\* S3.DeleteObject(objectKey) with the backend answering ok: the bucket
\* afterwards, the error, the backend calls
DeleteObject(st, objectKey, ok) ==
  IF DeleteObjectOk(objectKey, ok)
  THEN [store |-> DeleteFrom(st, objectKey), err |-> FALSE,
        calls |-> <<DfDeleteCall(objectKey, TRUE)>>]
  ELSE [store |-> st, err |-> TRUE,
        calls |-> <<DfDeleteCall(objectKey, FALSE)>>]

\* deleteFileHandler for one request: clientOk is whether s3.NewClient
\* succeeds, ok whether the backend accepts the delete.  The handler is
\* handed the cache and does not use it.
DeleteFileRequest ==
  /\ dfile.n < MaxDeletes
  /\ \E path \in DeletePaths, clientOk \in BOOLEAN, ok \in BOOLEAN :
       LET asked == [DfileIdle EXCEPT !.n = dfile.n + 1, !.path = path,
                                      !.clientOk = clientOk]
       IN IF ~clientOk
          THEN /\ dfile' = [asked EXCEPT !.status = StatusInternalServerError]
               /\ store' = store
          ELSE LET r == DeleteObject(store, path, ok)
               IN /\ store' = r.store
                  /\ dfile' = [asked EXCEPT
                                 !.calls = r.calls,
                                 !.status = IF r.err
                                            THEN StatusInternalServerError
                                            ELSE StatusOK]
  /\ UNCHANGED <<cache, now, lp, df, lf, dl, hist, signs, cf, la>>

\* C23: a delete-file request that has a client issues exactly one backend
\* delete, for the key it was given; the bucket changes at that key at most
\* and the link cache not at all; and a download request that finds an
\* unexpired link for its key, deleted or not, returns it without presign.
C23_DeletePassthrough ==
  [][/\ dfile'.n > dfile.n =>
          /\ cache' = cache
          /\ dfile'.clientOk =>
               /\ Len(dfile'.calls) = 1
               /\ dfile'.calls[1].op = "delete"
               /\ dfile'.calls[1].key = dfile'.path
               /\ dfile'.calls[1].ok <=> dfile'.status = StatusOK
               /\ dfile'.calls[1].ok => dfile'.path \notin DOMAIN store'
          /\ ~dfile'.clientOk => dfile'.calls = <<>> /\ store' = store
          /\ \A k \in DOMAIN store :
               k # dfile'.path => k \in DOMAIN store' /\ store'[k] = store[k]
     /\ Len(hist') > Len(hist) =>
          LET last == hist'[Len(hist')]
              e    == StoredAfter(Len(hist), last.key)
          IN (e.has /\ last.getAt < e.expires) =>
               /\ ~last.presigned /\ ~last.err /\ last.url = e.url
               /\ signs' = signs /\ store' = store]_vars

\* a link was stored for a key, the key was deleted, and a download request
\* made before the expiry was answered with the stored link
C23_Witness ==
  /\ dfile.n = 1 /\ dfile.status = StatusOK
  /\ dfile.path \notin DOMAIN store
  /\ Len(hist) = 2
  /\ hist[1].key = dfile.path /\ hist[1].presigned /\ ~hist[1].err
  /\ hist[2].key = dfile.path /\ ~hist[2].presigned
  /\ hist[2].url = hist[1].url
  /\ Len(signs) = 1
  /\ <<"a", "/", "a">> \in DOMAIN store

----------------------------------------------------------------------------
(* ListAllFiles.  The recursion of listObjectsRecursively is a stack of    *)
(* frames; frame 1 is the body of ListAllFiles itself.  A step is one call *)
(* of ListFiles followed by the code up to the next call or the return.    *)

\* the page size ListAllFiles passes to ListFiles
AllPageSize == 10

\* a frame: the folder, the Files of its first page, the token of the page
\* to fetch next, the index of the next record of files to look at, and
\* where the frame is: before its first call ("first"), in its loop over
\* later pages ("pages"), in its loop over the records ("children")
Frame(path) ==
  [path |-> path, files |-> <<>>, nextToken |-> Nil, idx |-> 1,
   phase |-> "first"]

LaIdle ==
  [pc |-> "idle", folderPath |-> <<>>, stack |-> <<>>, allObjects |-> <<>>,
   calls |-> <<>>, listFailed |-> FALSE, outcome |-> "none", files |-> <<>>]

\* the records of files, from index idx on, that are folders
FoldersFrom(files, idx) == {i \in idx..Len(files) : files[i].IsFolder}

\* the largest number of list calls of one run of ListAllFiles that the
\* model follows
MaxAllCalls == 14

\* a pagination loop that is left at once
PagesLeftNever(nextToken) == FALSE

\* "for nextToken != "" {" (lines 639 and 656)
PagesLeft(nextToken) == nextToken # Nil

\* the code between two calls of ListFiles
RECURSIVE Settle(_)
Settle(a) ==
  LET d   == Len(a.stack)
      top == a.stack[d]
  IN IF top.phase = "first" THEN a
     ELSE IF top.phase = "pages"
     THEN IF PagesLeft(top.nextToken) THEN a
          ELSE Settle([a EXCEPT
                 \* "allObjects = append(allObjects, *objects.Files...)" of
                 \* listObjectsRecursively; ListAllFiles itself prepends the
                 \* first page of the root when it returns
                 !.allObjects = IF d > 1 THEN @ \o top.files ELSE @,
                 !.stack[d].phase = "children",
                 !.stack[d].idx = 1])
     \* "for _, subfolder := range *objects.Files": the records of the first
     \* page only
     ELSE LET sub == FoldersFrom(top.files, top.idx)
          IN IF sub # {}
             THEN LET i == CHOOSE i \in sub : \A j \in sub : i <= j
                  IN [a EXCEPT !.stack = Append([@ EXCEPT ![d].idx = i + 1],
                                                Frame(top.files[i].Name))]
             ELSE IF d > 1
             THEN Settle([a EXCEPT !.stack = SubSeq(@, 1, d - 1)])
             ELSE [a EXCEPT !.pc = "done", !.outcome = "ok", !.stack = <<>>,
                            !.files = top.files \o a.allObjects]

\* "objects.NextPageToken" and "*temp.Files" on the nil page of a failed
\* ListFiles: a nil pointer dereference
Crash(a) == [a EXCEPT !.pc = "done", !.outcome = "panic", !.stack = <<>>]

\* the state after the first call of a frame returned r
AfterFirst(a, r) ==
  LET d == Len(a.stack)
  IN IF r.err THEN Crash(a)
     ELSE Settle([a EXCEPT
            !.stack[d].files = r.page.Files,
            !.stack[d].nextToken = r.page.NextPageToken,
            !.stack[d].phase = "pages"])

\* a pagination loop that drops the page it fetched, its token included, and
\* so asks for the same page again
AfterNextIgnored(a, r) == a

\* the state after a call for a later page of a frame returned r
AfterNext(a, r) ==
  LET d == Len(a.stack)
  IN IF r.err THEN Crash(a)
     ELSE Settle([a EXCEPT
            !.allObjects = @ \o r.page.Files,
            !.stack[d].nextToken = r.page.NextPageToken])

\* ListAllFiles once the call of ListFiles by its top frame has returned r
LaReturn(a, r, first, listOk, failKey) ==
  /\ failKey = Nil \/ Presigned(r.calls, failKey)
  /\ la' = IF first
           THEN AfterFirst([a EXCEPT !.calls = Append(@, r.calls[1]),
                                     !.listFailed = @ \/ ~listOk], r)
           ELSE AfterNext([a EXCEPT !.calls = Append(@, r.calls[1]),
                                    !.listFailed = @ \/ ~listOk], r)
  /\ UNCHANGED <<store, cache, now, lp, df, lf, dl, hist, signs, cf, dfile>>

\* one call "s.ListFiles(path, token, 10, false, &cache.URLCache{})" for the
\* folder path and the token of the top frame: a fresh, empty cache each
\* time
LaCallFor(a, path, token, first) ==
  \E listOk \in BOOLEAN, failKey \in {Nil} \cup DOMAIN store :
    \E n \in PageLens(store, NormalizeFolderPath(path), TRUE, token,
                      AllPageSize + 1) :
      LaReturn(a, ListFiles(store, EmptyCache, now, path, token, AllPageSize,
                            FALSE, n, listOk, failKey),
               first, listOk, failKey)

LaCall(a, first) ==
  /\ Len(a.calls) < MaxAllCalls
  /\ LaCallFor(a, a.stack[Len(a.stack)].path,
               a.stack[Len(a.stack)].nextToken, first)

\* line 630: the first page of the root
ListAllFilesFirst ==
  /\ la.pc = "idle"
  /\ \E p \in Paths :
       LaCall([LaIdle EXCEPT !.pc = "run", !.folderPath = p,
                             !.stack = <<Frame(p)>>], TRUE)

\* line 640: a later page of the root
ListAllFilesNext ==
  /\ la.pc = "run"
  /\ Len(la.stack) = 1
  /\ la.stack[1].phase = "pages"
  /\ LaCall(la, FALSE)

\* line 652: the first page of a subfolder
ListRecursivelyFirst ==
  /\ la.pc = "run"
  /\ Len(la.stack) > 1
  /\ la.stack[Len(la.stack)].phase = "first"
  /\ LaCall(la, TRUE)

\* line 657: a later page of a subfolder
ListRecursivelyNext ==
  /\ la.pc = "run"
  /\ Len(la.stack) > 1
  /\ la.stack[Len(la.stack)].phase = "pages"
  /\ LaCall(la, FALSE)

\* the folders reachable from the folders of S by following folder records
RECURSIVE ReachableFrom(_, _)
ReachableFrom(st, S) ==
  LET more == {NormalizeFolderPath(rec.Name) :
                 rec \in {rec \in UNION {Range(Unpaginated(st, f, FALSE)) : f \in S} :
                            rec.IsFolder}}
  IN IF more \subseteq S THEN S ELSE ReachableFrom(st, S \cup more)

\* the union of the drained listings of every folder reachable from p
TreeRecords(st, p) ==
  UNION {Range(Unpaginated(st, f, FALSE)) :
           f \in ReachableFrom(st, {NormalizeFolderPath(p)})}

\* C2: the records list_all_files(p) returns are exactly the union of the
\* drained listings of p and of every folder reachable from p by following
\* folder records, none twice and none missing.
C2_UnionOfDrains ==
  (la.pc = "done" /\ la.outcome = "ok") =>
    /\ NoDup(PlainSeq(la.files))
    /\ Range(PlainSeq(la.files)) = TreeRecords(store, la.folderPath)

\* C16: in a list_all_files run, a later page of a folder is fetched right
\* after the page before it of the same folder, and when the first list
\* call for a child folder is about to be issued, every folder on the path
\* from the root to that child has had all its pages fetched.
C16_DrainBeforeDescent ==
  /\ \A k \in 1..Len(la.calls) :
       la.calls[k].token # Nil =>
         k > 1 /\ la.calls[k - 1].prefix = la.calls[k].prefix
  /\ \A d \in 2..Len(la.stack) :
       la.stack[d].phase = "first" =>
         \A e \in 1..(d - 1) : /\ la.stack[e].phase = "children"
                                /\ la.stack[e].nextToken = Nil

\* about to list a child of a folder whose listing took several pages
C16_Witness ==
  /\ la.pc = "run"
  /\ Len(la.stack) = 2
  /\ la.stack[2].phase = "first"
  /\ Len(la.calls) >= 2
  /\ la.calls[Len(la.calls)].token # Nil
  /\ la.calls[Len(la.calls)].prefix = NormalizeFolderPath(la.stack[1].path)

\* C19: every list_all_files run ends, whatever the bucket, the folder
\* path and the pages the backend cuts the listings into, zero-size objects
\* that are descended into as folders included.
C19_ListAllFilesTerminates == <>(la.pc = "done")

\* a run that returned after it fetched a later page and descended into a
\* zero-size object as a folder
C19_Witness ==
  /\ la.pc = "done" /\ la.outcome = "ok"
  /\ \E k \in 1..Len(la.calls) : la.calls[k].token # Nil
  /\ \E key \in DOMAIN store :
       /\ store[key] = 0 /\ ~HasSuffix(key, "/")
       /\ \E k \in 1..Len(la.calls) :
            la.calls[k].prefix = NormalizeFolderPath(key)

\* C20: in a list_all_files run the first page of a folder (the list call
\* with the normalized folder path and no continuation token) is asked for
\* at most once.
C20_NoRevisit ==
  \A i, j \in 1..Len(la.calls) :
    (/\ la.calls[i].token = Nil /\ la.calls[j].token = Nil
     /\ la.calls[i].prefix = la.calls[j].prefix) => i = j

\* C9: when a backend list call of a list_all_files run fails, the run
\* returns that error: it does not crash and does not return a listing.
C9_ErrorReturned ==
  (la.pc = "done" /\ la.listFailed) => la.outcome = "error"

----------------------------------------------------------------------------
(* Specifications.  Each follows one kind of request against every bucket  *)
(* of its bounds; the variables of the other requests stay idle.           *)

Idle ==
  /\ lp = LpIdle
  /\ df = DfIdle
  /\ lf = LfIdle
  /\ la = LaIdle
  /\ dl = [r \in Slots |-> DlIdle]
  /\ hist = <<>>
  /\ signs = <<>>
  /\ cf = CfIdle
  /\ dfile = DfileIdle

\* one client paging through GET /list, on a cache earlier requests filled
InitList ==
  /\ store \in Stores
  /\ cache \in InitCaches
  /\ now = 0
  /\ Idle

NextList == ListFirstPage \/ ListNextPage

SpecList == InitList /\ [][NextList]_vars

\* one run of ListAllFiles
InitAll ==
  /\ store \in Stores
  /\ cache = EmptyCache
  /\ now = 0
  /\ Idle

NextAll ==
  \/ ListAllFilesFirst
  \/ ListAllFilesNext
  \/ ListRecursivelyFirst
  \/ ListRecursivelyNext

SpecAll == InitAll /\ [][NextAll]_vars

\* the run is not suspended for ever: every call of ListFiles returns
SpecAllFair == SpecAll /\ WF_vars(NextAll)

\* one run of DeleteFolder, no other writer
InitDelete ==
  /\ store \in ScanStores
  /\ cache = EmptyCache
  /\ now = 0
  /\ Idle

NextDelete ==
  \/ DeleteFolderFirst
  \/ DeleteFolderNext
  \/ DeleteFolderDelete
  \/ DeleteFolderItself

SpecDelete == InitDelete /\ [][NextDelete]_vars

\* the run is not suspended for ever: every backend call returns, with a
\* result or an error, and the code goes on
SpecDeleteFair == SpecDelete /\ WF_vars(NextDelete)

\* one run of ListAllFolders
InitFolders ==
  /\ store \in ScanStores
  /\ cache = EmptyCache
  /\ now = 0
  /\ Idle

NextFolders == ListAllFoldersFirst \/ ListAllFoldersNext

SpecFolders == InitFolders /\ [][NextFolders]_vars

\* download requests one after the other on the shared cache, while time
\* passes: a request starts when none is in flight
InitLink ==
  /\ store = [k \in LinkKeys |-> FileSize]
  /\ cache = EmptyCache
  /\ now = 0
  /\ Idle

NextLink ==
  \/ (InFlight = {} /\ DownloadGet(1))
  \/ DownloadPresign(1)
  \/ Tick

\* one create-folder request
InitCreate ==
  /\ store \in Stores
  /\ cache = EmptyCache
  /\ now = 0
  /\ Idle

NextCreate == CreateFolderRequest

SpecCreate == InitCreate /\ [][NextCreate]_vars

SpecLink == InitLink /\ [][NextLink]_vars

\* download requests one after the other and delete-file requests, while
\* time passes
InitUnlink ==
  /\ store = LinkStore
  /\ cache = EmptyCache
  /\ now = 0
  /\ Idle

NextUnlink ==
  \/ (/\ InFlight = {}
      /\ Len(hist) < MaxRaces
      /\ DownloadGet(1))
  \/ DownloadPresign(1)
  \/ DeleteFileRequest
  \/ Tick

SpecUnlink == InitUnlink /\ [][NextUnlink]_vars

\* download requests on separate execution contexts, on the shared cache
NextRace ==
  \/ \E r \in Slots :
       Len(hist) + Cardinality(InFlight) < MaxRaces /\ DownloadGet(r)
  \/ \E r \in Slots : DownloadSign(r)
  \/ \E r \in Slots : DownloadStore(r)
  \/ Tick

SpecRace == InitLink /\ [][NextRace]_vars

====
